---- MODULE Spec2Model ----
(***************************************************************************)
(* A model of the example rollup: the Executor loop of run_executor        *)
(* (src/src/executor.rs), the API handlers of serve (src/src/api.rs) and   *)
(* the Ledger (crate::state::State) they share behind an async RwLock.     *)
(*                                                                         *)
(* The Ledger's own code (state.rs, transaction.rs) is not part of the     *)
(* sources at hand; Apply, ExecuteBlock, Commit and GetBalance follow      *)
(* section 4.1 of the specification.                                       *)
(***************************************************************************)
EXTENDS Integers, Sequences, FiniteSets, TLC

\* ------------------------------------------------------------------------
\* Bounds of the model
\* ------------------------------------------------------------------------
\* Heights the HotShot contract anchors in one run.
MaxHeight == 2
\* Transactions per sequenced block.
MaxBlockLen == 2
\* Largest amount and nonce a transfer carries.
MaxAmount == 1
MaxNonce == 2
\* The balance seeded for alice at genesis (9999 in the tests).
GenesisBalance == 2

\* The VmID that tags this rollup's transactions in a sequenced block.
VM_ID == 1

\* The accounts of the Ledger.
Addresses == {"alice", "bob", "carol", "dave"}
\* A fixed order of the accounts, for digests.
AddressOrder == <<"alice", "bob", "carol", "dave">>
\* The wallets of the tests, which sign and receive the transfers sequenced
\* in blocks.
Wallets == {"alice", "bob"}

\* ------------------------------------------------------------------------
\* Signed transfers, blocks and their hashes
\* ------------------------------------------------------------------------
\* A SignedTransaction: the Transaction fields of the tests (amount,
\* destination, nonce) and the signature, modelled by the wallet that signed
\* and whether the signature matches the fields.
SignedTransaction(amount, destination, nonce, signer, sig_ok) ==
    [amount |-> amount, destination |-> destination, nonce |-> nonce,
     signer |-> signer, sig_ok |-> sig_ok]

\* The transfers the model draws from: every correctly signed transfer within
\* the bounds, and one forged transfer that would be valid at genesis.
Transactions ==
    { SignedTransaction(a, d, n, s, TRUE) :
        a \in 1..MaxAmount, d \in Wallets, n \in 1..MaxNonce, s \in Wallets }
    \cup { SignedTransaction(1, "bob", 1, "alice", FALSE) }

\* The transfers of the tests, with the amount 100 scaled to 1: alice to bob
\* in test_execute, alice to herself in submit_test.
ExecuteTestTransaction == SignedTransaction(1, "bob", 1, "alice", TRUE)
SubmitTestTransaction == SignedTransaction(1, "alice", 1, "alice", TRUE)

RECURSIVE SeqsUpTo(_, _)
SeqsUpTo(S, n) ==
    IF n = 0 THEN { <<>> }
    ELSE LET shorter == SeqsUpTo(S, n - 1)
         IN  shorter \cup { Append(q, x) : q \in { r \in shorter : Len(r) = n - 1 }, x \in S }

\* The blocks the sequencer may have finalized at a height.
Blocks == SeqsUpTo(Transactions, MaxBlockLen)

AddressIndex(a) == CHOOSE k \in 1..Len(AddressOrder) : AddressOrder[k] = a

\* transaction.encode(): the canonical encoding of a signed transfer, a
\* positive number in mixed radix over its fields.
Encode(t) ==
    1 + (t.amount - 1)
      + MaxAmount * ((t.nonce - 1)
      + MaxNonce * ((AddressIndex(t.destination) - 1)
      + Len(AddressOrder) * ((AddressIndex(t.signer) - 1)
      + Len(AddressOrder) * (IF t.sig_ok THEN 0 ELSE 1))))

EncodeRadix == 2 * MaxAmount * MaxNonce * Len(AddressOrder) * Len(AddressOrder) + 1

\* block.block().commit(): the content hash of a block, collision free on
\* the blocks of the model.
RECURSIVE BlockCommit(_)
BlockCommit(b) ==
    IF b = <<>> THEN 0
    ELSE BlockCommit(SubSeq(b, 1, Len(b) - 1)) * EncodeRadix + Encode(b[Len(b)])

\* ------------------------------------------------------------------------
\* The Ledger (crate::state::State), after section 4.1 of the specification
\* ------------------------------------------------------------------------
\* State::from_initial_balances([(alice, GenesisBalance)]): every other
\* balance and every sequence number start at 0.
FromInitialBalances ==
    [balances |-> [a \in Addresses |-> IF a = "alice" THEN GenesisBalance ELSE 0],
     nonces   |-> [a \in Addresses |-> 0]]

\* get_balance(address): a read-only lookup.
GetBalance(s, a) == s.balances[a]

\* The Transaction Validator: the signer recovered from the signature, or a
\* BadSignature rejection.
Recover(t) == IF t.sig_ok THEN t.signer ELSE "BadSignature"

\* A verdict that does not look at the sequence number.
VerdictNoSequenceCheck(s, t) ==
    IF Recover(t) = "BadSignature" THEN "BadSignature"
    ELSE IF t.amount > s.balances[Recover(t)] THEN "InsufficientFunds"
    ELSE "Ok"

\* A verdict of a Ledger that keeps one sequence number for all senders.
VerdictSharedSequence(s, t) ==
    LET used == { s.nonces[a] : a \in Addresses }
        last == CHOOSE n \in used : \A m \in used : m <= n
    IN  IF Recover(t) = "BadSignature" THEN "BadSignature"
        ELSE IF t.nonce # last + 1 THEN "ReplayedOrStaleSequence"
        ELSE IF t.amount > s.balances[Recover(t)] THEN "InsufficientFunds"
        ELSE "Ok"

\* The verdict of apply on a transfer: the signature first (the sender is
\* only known from it), then the sequence number, then the funds.
Verdict(s, t) ==
    IF Recover(t) = "BadSignature" THEN "BadSignature"
    ELSE IF t.nonce # s.nonces[Recover(t)] + 1 THEN "ReplayedOrStaleSequence"
    ELSE IF t.amount > s.balances[Recover(t)] THEN "InsufficientFunds"
    ELSE "Ok"

\* An apply that credits the destination from the balances read before the
\* debit.
ApplyStaleCredit(s, t) ==
    IF Verdict(s, t) # "Ok" THEN s
    ELSE LET sender   == Recover(t)
             debited  == [s.balances EXCEPT ![sender] = @ - t.amount]
             credited == [debited EXCEPT ![t.destination] = s.balances[t.destination] + t.amount]
         IN  [balances |-> credited,
              nonces   |-> [s.nonces EXCEPT ![sender] = t.nonce]]

\* An apply that records the sequence number before it checks the funds.
ApplyRecordsSequenceFirst(s, t) ==
    IF Verdict(s, t) \in {"BadSignature", "ReplayedOrStaleSequence"} THEN s
    ELSE IF Verdict(s, t) = "InsufficientFunds"
         THEN [s EXCEPT !.nonces[Recover(t)] = t.nonce]
    ELSE LET sender   == Recover(t)
             debited  == [s.balances EXCEPT ![sender] = @ - t.amount]
             credited == [debited EXCEPT ![t.destination] = @ + t.amount]
         IN  [balances |-> credited,
              nonces   |-> [s.nonces EXCEPT ![sender] = t.nonce]]

\* apply(transfer): debit the sender, then credit the destination, and record
\* the sequence number; a rejected transfer leaves the Ledger as it was.
Apply(s, t) ==
    IF Verdict(s, t) # "Ok" THEN s
    ELSE LET sender   == Recover(t)
             debited  == [s.balances EXCEPT ![sender] = @ - t.amount]
             credited == [debited EXCEPT ![t.destination] = @ + t.amount]
         IN  [balances |-> credited,
              nonces   |-> [s.nonces EXCEPT ![sender] = t.nonce]]

\* execute_block(block) as a pure fold: the Ledger after the first n
\* transactions of the block, rejected ones skipped.
RECURSIVE ExecutePrefix(_, _, _)
ExecutePrefix(s, b, n) ==
    IF n = 0 THEN s ELSE Apply(ExecutePrefix(s, b, n - 1), b[n])

ExecuteBlock(s, b) == ExecutePrefix(s, b, Len(b))

\* commit(): the digest of the full balance and sequence map, taken in the
\* fixed order of the accounts.
Commit(s) ==
    [k \in 1..(2 * Len(AddressOrder)) |->
        IF k % 2 = 1 THEN s.balances[AddressOrder[(k + 1) \div 2]]
                     ELSE s.nonces[AddressOrder[k \div 2]]]

\* commitment_to_u256: the digest read as one big-endian number.
CommitRadix == GenesisBalance + MaxNonce + 1

RECURSIVE CommitmentToU256(_)
CommitmentToU256(c) ==
    IF c = <<>> THEN 0
    ELSE CommitmentToU256(SubSeq(c, 1, Len(c) - 1)) * CommitRadix + c[Len(c)]

\* The proof artifact of a block: opaque here, a summary of the transition.
Proof(old, new) == <<CommitmentToU256(Commit(old)), CommitmentToU256(Commit(new))>>

RECURSIVE SumBalances(_, _)
SumBalances(s, n) ==
    IF n = 0 THEN 0 ELSE SumBalances(s, n - 1) + s.balances[AddressOrder[n]]

TotalBalance(s) == SumBalances(s, Len(AddressOrder))

\* ------------------------------------------------------------------------
\* State
\* ------------------------------------------------------------------------
VARIABLES
    pc,                    \* where run_executor is
    block_height,          \* run_executor's block_height
    current_block_height,  \* run_executor's current_block_height
    i,                     \* the height of the for loop
    block_commitment,      \* the hash read from the HotShot contract for i
    block,                 \* the block fetched from the query service for i
    next_tx,               \* execute_block's position in the block
    proof,                 \* the proof of the block executed
    state_comm,            \* the commitment of the state after the block
    state,                 \* the Ledger behind the RwLock
    writer,                \* the RwLock: who holds the write guard
    readers,               \* the RwLock: number of read guards
    l1_block_height,       \* the HotShot contract's block_height
    stream,                \* NewBlocks logs delivered and not yet consumed
    contract_state_comm,   \* the Rollup contract's state_commitment
    api_pc,                \* where the API's handler is
    api_address,           \* the address parameter of a balance request
    api_transaction,       \* the envelope a submit request posts
    api_response,          \* the handler's result, until it is sent
    exit_cause,            \* why run_executor returned
    executed_heights,      \* history: the heights execute_block ran on
    accepted_heights,      \* history: the heights whose new_block succeeded
    submit_height,         \* history: the height of the latest new_block call
    committed,             \* history: the Ledger at the last block boundary
    applied,               \* history: <<signer, nonce>> of transfers applied
    stream_open,           \* the websocket's log stream has not ended
    l1_reorged             \* the L1 chain was reorganized below an anchored block

executor_vars == <<pc, block_height, current_block_height, i, block_commitment,
                   block, next_tx, proof, state_comm, exit_cause>>
ledger_vars   == <<state, writer, readers>>
l1_vars       == <<l1_block_height, stream, contract_state_comm>>
api_vars      == <<api_pc, api_address, api_transaction, api_response>>
history_vars  == <<executed_heights, accepted_heights, submit_height, committed,
                   applied>>
fault_vars    == <<stream_open, l1_reorged>>
vars == <<executor_vars, ledger_vars, l1_vars, api_vars, history_vars, fault_vars>>

NoBlock == <<>>
NoValue == 0 - 1
NoResponse == [status |-> "none", balance |-> 0]

\* The state after main has built the Ledger and spawned run_executor and
\* serve; the contracts are freshly deployed.
Init ==
    /\ pc = "connect_hotshot"
    /\ block_height = 0
    /\ current_block_height = 0
    /\ i = 0
    /\ block_commitment = NoValue
    /\ block = NoBlock
    /\ next_tx = 1
    /\ proof = <<>>
    /\ state_comm = NoValue
    /\ state = FromInitialBalances
    /\ writer = "none"
    /\ readers = 0
    /\ l1_block_height = 0
    /\ stream = 0
    /\ contract_state_comm = 0
    /\ api_pc = "idle"
    /\ api_address = "none"
    /\ api_transaction = <<>>
    /\ api_response = NoResponse
    /\ exit_cause = "none"
    /\ executed_heights = <<>>
    /\ accepted_heights = <<>>
    /\ submit_height = NoValue
    /\ committed = FromInitialBalances
    /\ applied = {}
    /\ stream_open = TRUE
    /\ l1_reorged = FALSE

\* ------------------------------------------------------------------------
\* run_executor: start-up (executor.rs 40-77)
\* ------------------------------------------------------------------------
Exit(cause) ==
    /\ pc' = "exited"
    /\ exit_cause' = cause

\* An attempt to reach the query service fails inside hotshot.connect(None):
\* the call has no timeout and run_executor has no return for it.
ConnectHotShotErr ==
    /\ pc = "connect_hotshot"
    /\ pc' = "connect_hotshot_failed"
    /\ UNCHANGED <<block_height, current_block_height, i, block_commitment, block,
                   next_tx, proof, state_comm, exit_cause>>
    /\ UNCHANGED <<ledger_vars, l1_vars, api_vars, history_vars>>
    /\ UNCHANGED fault_vars

\* hotshot.connect(None).await is over, at the first attempt or after failed
\* ones; its result is not looked at.
ConnectHotShot ==
    /\ pc \in {"connect_hotshot", "connect_hotshot_failed"}
    /\ pc' = "connect_l1"
    /\ UNCHANGED <<block_height, current_block_height, i, block_commitment, block,
                   next_tx, proof, state_comm, exit_cause>>
    /\ UNCHANGED <<ledger_vars, l1_vars, api_vars, history_vars>>
    /\ UNCHANGED fault_vars

\* connect_rpc(l1_provider, rollup_mnemonic, None)
ConnectL1 ==
    /\ pc = "connect_l1"
    /\ pc' = "connect_ws"
    /\ UNCHANGED <<block_height, current_block_height, i, block_commitment, block,
                   next_tx, proof, state_comm, exit_cause>>
    /\ UNCHANGED <<ledger_vars, l1_vars, api_vars, history_vars>>
    /\ UNCHANGED fault_vars

ConnectL1Err ==
    /\ pc = "connect_l1"
    /\ Exit("connect_l1")
    /\ UNCHANGED <<block_height, current_block_height, i, block_commitment, block,
                   next_tx, proof, state_comm>>
    /\ UNCHANGED <<ledger_vars, l1_vars, api_vars, history_vars>>
    /\ UNCHANGED fault_vars

\* Provider::<Ws>::connect(ws_url)
ConnectWs ==
    /\ pc = "connect_ws"
    /\ pc' = "subscribe"
    /\ UNCHANGED <<block_height, current_block_height, i, block_commitment, block,
                   next_tx, proof, state_comm, exit_cause>>
    /\ UNCHANGED <<ledger_vars, l1_vars, api_vars, history_vars>>
    /\ UNCHANGED fault_vars

\* A failed websocket connection that is logged and not returned from.
ConnectWsErrContinues ==
    /\ pc = "connect_ws"
    /\ exit_cause' = "connect_ws"
    /\ pc' = "subscribe"
    /\ UNCHANGED <<block_height, current_block_height, i, block_commitment, block,
                   next_tx, proof, state_comm>>
    /\ UNCHANGED <<ledger_vars, l1_vars, api_vars, history_vars>>
    /\ UNCHANGED fault_vars

ConnectWsErr ==
    /\ pc = "connect_ws"
    /\ Exit("connect_ws")
    /\ UNCHANGED <<block_height, current_block_height, i, block_commitment, block,
                   next_tx, proof, state_comm>>
    /\ UNCHANGED <<ledger_vars, l1_vars, api_vars, history_vars>>
    /\ UNCHANGED fault_vars

\* socket_provider.subscribe_logs(&blocks_filter), then block_height = 0.
\* The stream carries the logs emitted from here on.
SubscribeLogs ==
    /\ pc = "subscribe"
    /\ pc' = "read_height"
    /\ block_height' = 0
    /\ stream' = 0
    /\ UNCHANGED <<current_block_height, i, block_commitment, block,
                   next_tx, proof, state_comm, exit_cause>>
    /\ UNCHANGED <<ledger_vars, l1_block_height, contract_state_comm, api_vars,
                   history_vars>>
    /\ UNCHANGED fault_vars

SubscribeLogsErr ==
    /\ pc = "subscribe"
    /\ Exit("subscribe")
    /\ UNCHANGED <<block_height, current_block_height, i, block_commitment, block,
                   next_tx, proof, state_comm>>
    /\ UNCHANGED <<ledger_vars, l1_vars, api_vars, history_vars>>
    /\ UNCHANGED fault_vars

\* hotshot_contract.block_height().call(); the for loop starts at block_height.
ReadBlockHeight ==
    /\ pc = "read_height"
    /\ current_block_height' = l1_block_height
    /\ i' = block_height
    /\ pc' = "for"
    /\ UNCHANGED <<block_height, block_commitment, block, next_tx, proof,
                   state_comm, exit_cause>>
    /\ UNCHANGED <<ledger_vars, l1_vars, api_vars, history_vars>>
    /\ UNCHANGED fault_vars

ReadBlockHeightErr ==
    /\ pc = "read_height"
    /\ Exit("block_height")
    /\ UNCHANGED <<block_height, current_block_height, i, block_commitment, block,
                   next_tx, proof, state_comm>>
    /\ UNCHANGED <<ledger_vars, l1_vars, api_vars, history_vars>>
    /\ UNCHANGED fault_vars

\* for i in block_height..current_block_height: one more height to process.
ForBody ==
    /\ pc = "for"
    /\ i < current_block_height
    /\ pc' = "read_commitment"
    /\ UNCHANGED <<block_height, current_block_height, i, block_commitment, block,
                   next_tx, proof, state_comm, exit_cause>>
    /\ UNCHANGED <<ledger_vars, l1_vars, api_vars, history_vars>>
    /\ UNCHANGED fault_vars

\* A for loop that ends without the assignment to block_height.
ForDoneKeepsBlockHeight ==
    /\ pc = "for"
    /\ ~(i < current_block_height)
    /\ pc' = "stream_next"
    /\ UNCHANGED <<block_height, current_block_height, i, block_commitment, block,
                   next_tx, proof, state_comm, exit_cause>>
    /\ UNCHANGED <<ledger_vars, l1_vars, api_vars, history_vars>>
    /\ UNCHANGED fault_vars

\* The range is exhausted: block_height = current_block_height.
ForDone ==
    /\ pc = "for"
    /\ ~(i < current_block_height)
    /\ block_height' = current_block_height
    /\ pc' = "stream_next"
    /\ UNCHANGED <<current_block_height, i, block_commitment, block,
                   next_tx, proof, state_comm, exit_cause>>
    /\ UNCHANGED <<ledger_vars, l1_vars, api_vars, history_vars>>
    /\ UNCHANGED fault_vars

\* The hashes the HotShot contract can hold for a height.
BlockHashes == { BlockCommit(b) : b \in Blocks }

\* hotshot_contract.commitments(i).call(), to_little_endian and
\* BlockHash::deserialize: the hash anchored for height i.
ReadCommitment ==
    /\ pc = "read_commitment"
    /\ \E c \in BlockHashes : block_commitment' = c
    /\ pc' = "get_block"
    /\ UNCHANGED <<block_height, current_block_height, i, block,
                   next_tx, proof, state_comm, exit_cause>>
    /\ UNCHANGED <<ledger_vars, l1_vars, api_vars, history_vars>>
    /\ UNCHANGED fault_vars

\* A failed read of the anchored hash that is logged and makes the for loop
\* continue with the next height.
ReadCommitmentErrSkipsHeight ==
    /\ pc = "read_commitment"
    /\ i' = i + 1
    /\ pc' = "for"
    /\ UNCHANGED <<block_height, current_block_height, block_commitment, block,
                   next_tx, proof, state_comm, exit_cause>>
    /\ UNCHANGED <<ledger_vars, l1_vars, api_vars, history_vars>>
    /\ UNCHANGED fault_vars


ReadCommitmentErr ==
    /\ pc = "read_commitment"
    /\ Exit("commitment")
    /\ UNCHANGED <<block_height, current_block_height, i, block_commitment, block,
                   next_tx, proof, state_comm>>
    /\ UNCHANGED <<ledger_vars, l1_vars, api_vars, history_vars>>
    /\ UNCHANGED fault_vars

\* The block the query service answers with when it does not hold the
\* anchored block: the block of test_execute's transfer.
ForeignBlocks == { <<ExecuteTestTransaction>> }

\* hotshot.get("block/{i}"): the anchored block, or another one.
GetBlock ==
    /\ pc = "get_block"
    /\ \E b \in Blocks :
          /\ BlockCommit(b) = block_commitment \/ b \in ForeignBlocks
          /\ block' = b
    /\ pc' = "check_commitment"
    /\ UNCHANGED <<block_height, current_block_height, i, block_commitment,
                   next_tx, proof, state_comm, exit_cause>>
    /\ UNCHANGED <<ledger_vars, l1_vars, api_vars, history_vars>>
    /\ UNCHANGED fault_vars

GetBlockErr ==
    /\ pc = "get_block"
    /\ Exit("block")
    /\ UNCHANGED <<block_height, current_block_height, i, block_commitment, block,
                   next_tx, proof, state_comm>>
    /\ UNCHANGED <<ledger_vars, l1_vars, api_vars, history_vars>>
    /\ UNCHANGED fault_vars

\* A comparison that lets every block through.
CommitmentNeverMismatches == FALSE

\* if block.block().commit() != block_commitment { return }
CommitmentMismatch == BlockCommit(block) # block_commitment

CheckCommitment ==
    /\ pc = "check_commitment"
    /\ ~CommitmentMismatch
    /\ pc' = "state_write"
    /\ UNCHANGED <<block_height, current_block_height, i, block_commitment, block,
                   next_tx, proof, state_comm, exit_cause>>
    /\ UNCHANGED <<ledger_vars, l1_vars, api_vars, history_vars>>
    /\ UNCHANGED fault_vars

CheckCommitmentErr ==
    /\ pc = "check_commitment"
    /\ CommitmentMismatch
    /\ Exit("mismatch")
    /\ UNCHANGED <<block_height, current_block_height, i, block_commitment, block,
                   next_tx, proof, state_comm>>
    /\ UNCHANGED <<ledger_vars, l1_vars, api_vars, history_vars>>
    /\ UNCHANGED fault_vars

\* The RwLock grants a write guard when nobody holds a guard.
CanWrite == writer = "none" /\ readers = 0
\* The RwLock grants a read guard when nobody holds the write guard.
CanRead == writer = "none"

\* execute_block run without the write guard.
StateWriteNoGuard ==
    /\ pc = "state_write"
    /\ next_tx' = 1
    /\ executed_heights' = Append(executed_heights, i)
    /\ pc' = "execute_block"
    /\ UNCHANGED <<block_height, current_block_height, i, block_commitment, block,
                   proof, state_comm, exit_cause>>
    /\ UNCHANGED <<state, writer, readers, l1_vars, api_vars>>
    /\ UNCHANGED <<accepted_heights, submit_height, committed, applied>>
    /\ UNCHANGED fault_vars

\* state.write().await, and the call of execute_block on the guard.
StateWrite ==
    /\ pc = "state_write"
    /\ CanWrite
    /\ writer' = "executor"
    /\ next_tx' = 1
    /\ executed_heights' = Append(executed_heights, i)
    /\ pc' = "execute_block"
    /\ UNCHANGED <<block_height, current_block_height, i, block_commitment, block,
                   proof, state_comm, exit_cause>>
    /\ UNCHANGED <<state, readers, l1_vars, api_vars>>
    /\ UNCHANGED <<accepted_heights, submit_height, committed, applied>>
    /\ UNCHANGED fault_vars

\* An execute_block that returns at the first rejected transaction and leaves
\* the rest of the block unapplied.
ExecuteTransactionAbortsBlock ==
    /\ pc = "execute_block"
    /\ next_tx <= Len(block)
    /\ LET t == block[next_tx]
           v == Verdict(state, t)
       IN  /\ state' = Apply(state, t)
           /\ applied' = IF v = "Ok" THEN applied \cup { <<t.signer, t.nonce>> }
                         ELSE applied
           /\ next_tx' = IF v = "Ok" THEN next_tx + 1 ELSE Len(block) + 1
    /\ UNCHANGED <<pc, block_height, current_block_height, i, block_commitment, block,
                   proof, state_comm, exit_cause>>
    /\ UNCHANGED <<writer, readers, l1_vars, api_vars>>
    /\ UNCHANGED <<executed_heights, accepted_heights, submit_height, committed>>
    /\ UNCHANGED fault_vars

\* execute_block: the next transaction of the block is applied or skipped.
ExecuteTransaction ==
    /\ pc = "execute_block"
    /\ next_tx <= Len(block)
    /\ LET t == block[next_tx]
           v == Verdict(state, t)
       IN  /\ state' = Apply(state, t)
           /\ applied' = IF v = "Ok" THEN applied \cup { <<t.signer, t.nonce>> }
                         ELSE applied
    /\ next_tx' = next_tx + 1
    /\ UNCHANGED <<pc, block_height, current_block_height, i, block_commitment, block,
                   proof, state_comm, exit_cause>>
    /\ UNCHANGED <<writer, readers, l1_vars, api_vars>>
    /\ UNCHANGED <<executed_heights, accepted_heights, submit_height, committed>>
    /\ UNCHANGED fault_vars

\* execute_block returns the proof of the block.
ExecuteBlockDone ==
    /\ pc = "execute_block"
    /\ next_tx > Len(block)
    /\ proof' = Proof(committed, state)
    /\ pc' = "commit"
    /\ UNCHANGED <<block_height, current_block_height, i, block_commitment, block,
                   next_tx, state_comm, exit_cause>>
    /\ UNCHANGED <<ledger_vars, l1_vars, api_vars, history_vars>>
    /\ UNCHANGED fault_vars

\* The commitment taken from the Ledger as it was before the block.
CommitStateBeforeBlock ==
    /\ pc = "commit"
    /\ state_comm' = CommitmentToU256(Commit(committed))
    /\ writer' = "none"
    /\ committed' = state
    /\ pc' = "submit"
    /\ UNCHANGED <<block_height, current_block_height, i, block_commitment, block,
                   next_tx, proof, exit_cause>>
    /\ UNCHANGED <<state, readers, l1_vars, api_vars>>
    /\ UNCHANGED <<executed_heights, accepted_heights, submit_height, applied>>
    /\ UNCHANGED fault_vars

\* A write guard that lives on after the block expression, through the
\* submission and its retries.
CommitStateKeepsGuard ==
    /\ pc = "commit"
    /\ state_comm' = CommitmentToU256(Commit(state))
    /\ committed' = state
    /\ pc' = "submit"
    /\ UNCHANGED <<block_height, current_block_height, i, block_commitment, block,
                   next_tx, proof, exit_cause>>
    /\ UNCHANGED <<state, writer, readers, l1_vars, api_vars>>
    /\ UNCHANGED <<executed_heights, accepted_heights, submit_height, applied>>
    /\ UNCHANGED fault_vars

\* commitment_to_u256(state_lock.commit()), and the guard is dropped at the
\* end of the block expression.
CommitState ==
    /\ pc = "commit"
    /\ state_comm' = CommitmentToU256(Commit(state))
    /\ writer' = "none"
    /\ committed' = state
    /\ pc' = "submit"
    /\ UNCHANGED <<block_height, current_block_height, i, block_commitment, block,
                   next_tx, proof, exit_cause>>
    /\ UNCHANGED <<state, readers, l1_vars, api_vars>>
    /\ UNCHANGED <<executed_heights, accepted_heights, submit_height, applied>>
    /\ UNCHANGED fault_vars

\* contract_send(rollup_contract.new_block(state_comm, proof)) succeeds: the
\* contract records the commitment, the while loop ends and so does this
\* iteration of the for loop, whose locals go out of scope.
NewBlock ==
    /\ pc = "submit"
    /\ contract_state_comm' = state_comm
    /\ accepted_heights' = Append(accepted_heights, i)
    /\ submit_height' = i
    /\ i' = i + 1
    /\ block_commitment' = NoValue
    /\ block' = NoBlock
    /\ next_tx' = 1
    /\ proof' = <<>>
    /\ state_comm' = NoValue
    /\ pc' = "for"
    /\ UNCHANGED <<block_height, current_block_height, exit_cause>>
    /\ UNCHANGED <<ledger_vars, l1_block_height, stream, api_vars>>
    /\ UNCHANGED <<executed_heights, committed, applied>>
    /\ UNCHANGED fault_vars

\* A retry loop that gives up: after a failed submission the for loop moves
\* on to the next height.
NewBlockErrGivesUp ==
    /\ pc = "submit"
    /\ submit_height' = i
    /\ i' = i + 1
    /\ block_commitment' = NoValue
    /\ block' = NoBlock
    /\ next_tx' = 1
    /\ proof' = <<>>
    /\ state_comm' = NoValue
    /\ pc' = "for"
    /\ UNCHANGED <<block_height, current_block_height, exit_cause>>
    /\ UNCHANGED <<ledger_vars, l1_vars, api_vars>>
    /\ UNCHANGED <<executed_heights, accepted_heights, committed, applied>>
    /\ UNCHANGED fault_vars

\* A retry loop that treats a failed submission as an error of run_executor
\* and returns.
NewBlockErrIsFatal ==
    /\ pc = "submit"
    /\ submit_height' = i
    /\ Exit("new_block")
    /\ UNCHANGED <<block_height, current_block_height, i, block_commitment, block,
                   next_tx, proof, state_comm>>
    /\ UNCHANGED <<ledger_vars, l1_vars, api_vars>>
    /\ UNCHANGED <<executed_heights, accepted_heights, committed, applied>>
    /\ UNCHANGED fault_vars

\* contract_send returns None: warn, and sleep before the next attempt.
NewBlockErr ==
    /\ pc = "submit"
    /\ submit_height' = i
    /\ pc' = "sleep"
    /\ UNCHANGED <<block_height, current_block_height, i, block_commitment, block,
                   next_tx, proof, state_comm, exit_cause>>
    /\ UNCHANGED <<ledger_vars, l1_vars, api_vars>>
    /\ UNCHANGED <<executed_heights, accepted_heights, committed, applied>>
    /\ UNCHANGED fault_vars

\* A sleep after which the for loop continues with the next height instead
\* of submitting again.
SleepThenNextHeight ==
    /\ pc = "sleep"
    /\ i' = i + 1
    /\ block_commitment' = NoValue
    /\ block' = NoBlock
    /\ next_tx' = 1
    /\ proof' = <<>>
    /\ state_comm' = NoValue
    /\ pc' = "for"
    /\ UNCHANGED <<block_height, current_block_height, exit_cause>>
    /\ UNCHANGED <<ledger_vars, l1_vars, api_vars, history_vars>>
    /\ UNCHANGED fault_vars

\* A retry that runs the block expression again before it submits again.
SleepThenReexecutes ==
    /\ pc = "sleep"
    /\ pc' = "state_write"
    /\ UNCHANGED <<block_height, current_block_height, i, block_commitment, block,
                   next_tx, proof, state_comm, exit_cause>>
    /\ UNCHANGED <<ledger_vars, l1_vars, api_vars, history_vars>>
    /\ UNCHANGED fault_vars

\* sleep(1 s) is over: the while condition is evaluated again.
Sleep ==
    /\ pc = "sleep"
    /\ pc' = "submit"
    /\ UNCHANGED <<block_height, current_block_height, i, block_commitment, block,
                   next_tx, proof, state_comm, exit_cause>>
    /\ UNCHANGED <<ledger_vars, l1_vars, api_vars, history_vars>>
    /\ UNCHANGED fault_vars

\* stream.next().await: the next NewBlocks log is consumed.
StreamNext ==
    /\ pc = "stream_next"
    /\ stream > 0
    /\ stream' = stream - 1
    /\ pc' = "read_height"
    /\ UNCHANGED <<block_height, current_block_height, i, block_commitment, block,
                   next_tx, proof, state_comm, exit_cause>>
    /\ UNCHANGED <<ledger_vars, l1_block_height, contract_state_comm, api_vars,
                   history_vars>>
    /\ UNCHANGED fault_vars

\* A subscription that hands a log over only while run_executor is waiting in
\* stream.next(), and does not keep the logs emitted meanwhile.
SubscribedOnlyWhileWaiting ==
    /\ pc = "stream_next"
    /\ stream_open

\* ------------------------------------------------------------------------
\* The HotShot commitment task, which anchors the sequencer's blocks
\* ------------------------------------------------------------------------
\* run_executor holds a subscription to the NewBlocks logs.
Subscribed ==
    /\ pc \notin {"connect_hotshot", "connect_hotshot_failed", "connect_l1",
                 "connect_ws", "subscribe", "exited"}
    /\ stream_open

\* The task anchors the next k blocks in one call of the HotShot contract,
\* which emits one NewBlocks log.
HotShotCommitmentTask ==
    /\ l1_block_height < MaxHeight
    /\ \E k \in 1..(MaxHeight - l1_block_height) : l1_block_height' = l1_block_height + k
    /\ stream' = IF Subscribed THEN stream + 1 ELSE stream
    /\ UNCHANGED <<executor_vars, ledger_vars, contract_state_comm, api_vars,
                   history_vars>>
    /\ UNCHANGED fault_vars

\* ------------------------------------------------------------------------
\* serve: the API's handlers (api.rs 21-76)
\* ------------------------------------------------------------------------
\* What a client may post to the submit route.
SubmittedTransactions == {ExecuteTestTransaction, SubmitTestTransaction}

\* What a client may send as the address parameter.
AddressParams == Wallets \cup {"malformed"}

\* GET balance: the route is dispatched with a read guard on the state.
BalanceStateRead ==
    /\ api_pc = "idle"
    /\ CanRead
    /\ readers' = readers + 1
    /\ \E a \in AddressParams : api_address' = a
    /\ api_pc' = "balance"
    /\ UNCHANGED <<executor_vars, state, writer, l1_vars, api_transaction,
                   api_response, history_vars>>
    /\ UNCHANGED fault_vars

\* address_str.parse::<Address>() succeeds: state.get_balance(&address).
BalanceHandler ==
    /\ api_pc = "balance"
    /\ api_address \in Addresses
    /\ api_response' = [status |-> "Ok", balance |-> GetBalance(state, api_address)]
    /\ api_pc' = "balance_respond"
    /\ UNCHANGED <<executor_vars, ledger_vars, l1_vars, api_address,
                   api_transaction, history_vars>>
    /\ UNCHANGED fault_vars

\* The address is malformed: a BadRequest error.
BalanceHandlerErr ==
    /\ api_pc = "balance"
    /\ api_address \notin Addresses
    /\ api_response' = [status |-> "BadRequest", balance |-> 0]
    /\ api_pc' = "balance_respond"
    /\ UNCHANGED <<executor_vars, ledger_vars, l1_vars, api_address,
                   api_transaction, history_vars>>
    /\ UNCHANGED fault_vars

\* The handler's future is over: the read guard is dropped and the response
\* is sent.
BalanceRespond ==
    /\ api_pc = "balance_respond"
    /\ readers' = readers - 1
    /\ api_address' = "none"
    /\ api_response' = NoResponse
    /\ api_pc' = "idle"
    /\ UNCHANGED <<executor_vars, state, writer, l1_vars, api_transaction,
                   history_vars>>
    /\ UNCHANGED fault_vars

\* POST submit: the route is dispatched with a write guard on the state; the
\* body is the SignedTransaction, wrapped for the sequencer with the VmID.
SubmitStateWrite ==
    /\ api_pc = "idle"
    /\ CanWrite
    /\ writer' = "api"
    /\ \E t \in SubmittedTransactions :
          api_transaction' = << [vm |-> VM_ID, payload |-> Encode(t)] >>
    /\ api_pc' = "submit"
    /\ UNCHANGED <<executor_vars, state, readers, l1_vars, api_address,
                   api_response, history_vars>>
    /\ UNCHANGED fault_vars

\* The transfer an envelope's payload decodes to.
Decode(payload) == CHOOSE t \in Transactions : Encode(t) = payload

\* A submit handler that applies the transfer to the Ledger through its
\* write guard before it posts it.
SubmitTransactionApplies ==
    /\ api_pc = "submit"
    /\ state' = Apply(state, Decode(api_transaction[1].payload))
    /\ writer' = "none"
    /\ api_transaction' = <<>>
    /\ api_pc' = "idle"
    /\ UNCHANGED <<executor_vars, readers, l1_vars, api_address,
                   api_response, history_vars>>
    /\ UNCHANGED fault_vars

\* submit_transaction: the envelope is posted to the sequencer, which answers
\* or fails; the handler is over and the write guard is dropped.
SubmitTransaction ==
    /\ api_pc = "submit"
    /\ writer' = "none"
    /\ api_transaction' = <<>>
    /\ api_pc' = "idle"
    /\ UNCHANGED <<executor_vars, state, readers, l1_vars, api_address,
                   api_response, history_vars>>
    /\ UNCHANGED fault_vars

\* ------------------------------------------------------------------------
\* The specification
\* ------------------------------------------------------------------------
\* run_executor, and the task that anchors the blocks it follows.
ExecutorNext ==
    \/ ConnectHotShotErr
    \/ ConnectHotShot
    \/ ConnectL1
    \/ ConnectL1Err
    \/ ConnectWs
    \/ ConnectWsErr
    \/ SubscribeLogs
    \/ SubscribeLogsErr
    \/ ReadBlockHeight
    \/ ReadBlockHeightErr
    \/ ForBody
    \/ ForDone
    \/ ReadCommitment
    \/ ReadCommitmentErr
    \/ GetBlock
    \/ GetBlockErr
    \/ CheckCommitment
    \/ CheckCommitmentErr
    \/ StateWrite
    \/ ExecuteTransaction
    \/ ExecuteBlockDone
    \/ CommitState
    \/ NewBlock
    \/ NewBlockErr
    \/ Sleep
    \/ StreamNext
    \/ HotShotCommitmentTask

\* serve.
ApiNext ==
    \/ BalanceStateRead
    \/ BalanceHandler
    \/ BalanceHandlerErr
    \/ BalanceRespond
    \/ SubmitStateWrite
    \/ SubmitTransaction

Next ==
    \/ ExecutorNext
    \/ ApiNext

Spec == Init /\ [][Next]_vars

\* ------------------------------------------------------------------------
\* run_executor on an L1 connection that misbehaves. serve is left out: its
\* handlers change neither a height nor the log stream.
\* ------------------------------------------------------------------------
\* The L1 chain is reorganized and blocks that anchored heights are gone:
\* block_height().call() will return a lower height than it did. The model
\* follows one reorganization.
L1Reorg ==
    /\ ~l1_reorged
    /\ l1_block_height > 0
    /\ \E h \in 0..(l1_block_height - 1) : l1_block_height' = h
    /\ l1_reorged' = TRUE
    /\ UNCHANGED <<executor_vars, ledger_vars, stream, contract_state_comm, api_vars,
                   history_vars, stream_open>>

\* The websocket connection is lost: the log stream ends after the logs
\* already delivered.
StreamEnds ==
    /\ Subscribed
    /\ stream_open' = FALSE
    /\ UNCHANGED <<executor_vars, ledger_vars, l1_vars, api_vars, history_vars,
                   l1_reorged>>

\* stream.next().await on the ended stream: None, at once; the Option is not
\* looked at and the loop goes on.
StreamNextNone ==
    /\ pc = "stream_next"
    /\ ~stream_open
    /\ stream = 0
    /\ pc' = "read_height"
    /\ UNCHANGED <<block_height, current_block_height, i, block_commitment, block,
                   next_tx, proof, state_comm, exit_cause>>
    /\ UNCHANGED <<ledger_vars, l1_vars, api_vars, history_vars, fault_vars>>

FaultNext ==
    \/ ExecutorNext
    \/ L1Reorg
    \/ StreamEnds
    \/ StreamNextNone

FaultSpec == Init /\ [][FaultNext]_vars

\* ------------------------------------------------------------------------
\* Properties
\* ------------------------------------------------------------------------
\* The heights 0, 1, ..., n - 1 in this order.
FirstHeights(n) == [k \in 1..n |-> k - 1]

\* C1: new_block is never called for height h + 1 before a call for height h
\* has succeeded: the heights accepted are 0, 1, 2, ... in this order, the
\* latest call was for a height all of whose predecessors are accepted, and so
\* is the call the Executor is about to make or to repeat.
C1_SubmissionsInHeightOrder ==
    /\ accepted_heights = FirstHeights(Len(accepted_heights))
    /\ submit_height <= Len(accepted_heights)
    /\ pc \in {"submit", "sleep"} => i = Len(accepted_heights)

\* Height 0 is accepted and a submission for height 1 has just failed.
C1_Witness ==
    /\ pc = "sleep"
    /\ accepted_heights = <<0>>
    /\ submit_height = 1

\* C2: the blocks applied to the Ledger are the blocks whose submission was
\* accepted, and at most one more; none is applied while one is not accepted.
C2_ExecutedAtMostOneAhead ==
    /\ Len(executed_heights) - Len(accepted_heights) \in {0, 1}
    /\ pc = "state_write" => Len(executed_heights) = Len(accepted_heights)

\* Block 1 is applied, after block 0 was accepted, and not yet accepted.
C2_Witness ==
    /\ executed_heights = <<0, 1>>
    /\ accepted_heights = <<0>>
    /\ pc = "sleep"

\* C3: a block whose hash differs from the anchored hash makes run_executor
\* return, with the Ledger as it was before the height was fetched and with
\* no execute_block and no submission for this height or a later one.
C3_MismatchStep ==
    (pc = "check_commitment" /\ BlockCommit(block) # block_commitment)
        => /\ pc' \in {"check_commitment", "exited"}
           /\ pc' = "exited" => exit_cause' = "mismatch"
           /\ UNCHANGED <<state, executed_heights, accepted_heights, submit_height>>

C3_FatalStep ==
    exit_cause = "mismatch"
        => /\ pc' = "exited"
           /\ UNCHANGED <<state, executed_heights, accepted_heights, submit_height,
                          exit_cause, contract_state_comm>>

C3_FatalState ==
    exit_cause = "mismatch"
        => /\ pc = "exited"
           /\ BlockCommit(block) # block_commitment
           /\ state = committed
           /\ Len(executed_heights) = i
           /\ Len(accepted_heights) = i
           /\ submit_height < i

C3_HashMismatchIsFatal ==
    /\ [][C3_MismatchStep /\ C3_FatalStep]_vars
    /\ []C3_FatalState

\* The block fetched for height 1 does not match, after block 0 changed the
\* Ledger; the block fetched holds a transfer.
C3_Witness ==
    /\ exit_cause = "mismatch"
    /\ i = 1
    /\ state # FromInitialBalances
    /\ Len(block) > 0

\* C4: once every applied block is anchored, the state commitment the Rollup
\* contract holds is the commitment of the Ledger.
C4_AnchoredCommitmentIsLedgerCommitment ==
    (Len(accepted_heights) >= 1 /\ Len(executed_heights) = Len(accepted_heights))
        => contract_state_comm = CommitmentToU256(Commit(state))

\* Two blocks are anchored, both of which changed the Ledger.
C4_Witness ==
    /\ accepted_heights = <<0, 1>>
    /\ applied = { <<"alice", 1>>, <<"alice", 2>> }
    /\ contract_state_comm = CommitmentToU256(Commit(state))

\* Where run_executor is while it submits, sleeps between retries, reads from
\* an adapter or waits for a log.
Suspended ==
    pc \in {"submit", "sleep", "read_height", "read_commitment", "get_block",
            "stream_next"}

\* C5, as stated: whenever the Executor submits, sleeps, reads from an adapter
\* or waits for a log, the write lock is free and a balance reader can take
\* the read lock.
C5_WriteLockFreeWhileSuspended ==
    Suspended => (writer = "none" /\ CanRead)

\* C5, amended: the Executor holds the write guard exactly while it runs
\* execute_block and commit; while it submits, sleeps, reads from an adapter or
\* waits for a log, a balance reader can take the read lock unless the API's
\* submit handler holds the write guard.
C5_ExecutorHoldsGuardOnlyForBlock ==
    /\ writer = "executor" <=> pc \in {"execute_block", "commit"}
    /\ (Suspended /\ api_pc # "submit") => CanRead
    /\ (Suspended /\ api_pc = "idle") => ENABLED BalanceStateRead

\* A balance handler holds the read guard while the Executor sleeps between
\* two attempts to submit.
C5_Witness ==
    /\ pc = "sleep"
    /\ api_pc = "balance"
    /\ readers = 1
    /\ writer = "none"

\* The Ledger once the block at hand is applied as a whole.
AfterWholeBlock ==
    IF pc \in {"execute_block", "commit"} THEN ExecuteBlock(committed, block)
    ELSE committed

\* C6: the balance a query returns is the balance before the block the
\* Executor is applying, or the balance after the whole of it.
C6_BalanceReadsSeeWholeBlocks ==
    (api_pc = "balance_respond" /\ api_response.status = "Ok")
        => api_response.balance \in
              { GetBalance(committed, api_address),
                GetBalance(AfterWholeBlock, api_address) }

\* A query is answered while the Executor waits for the write guard with a
\* block of two transfers that both change the balance asked for.
C6_Witness ==
    /\ api_pc = "balance_respond"
    /\ api_response.status = "Ok"
    /\ pc = "state_write"
    /\ Len(block) = 2
    /\ GetBalance(ExecutePrefix(state, block, 1), api_address)
          \notin { GetBalance(state, api_address),
                   GetBalance(ExecuteBlock(state, block), api_address) }

\* C7: no step of an API handler changes the Ledger; the Ledger changes only
\* when the Executor, under its write guard, applies a transaction of the
\* block it fetched.
C7_LedgerStep ==
    /\ api_pc' # api_pc => state' = state
    /\ state' # state =>
          /\ pc = "execute_block"
          /\ writer = "executor"
          /\ next_tx <= Len(block)
          /\ state' = Apply(state, block[next_tx])
          /\ UNCHANGED api_vars

C7_OnlyExecutorWritesLedger == [][C7_LedgerStep]_vars

\* The submit handler is posting test_execute's transfer while the Ledger is
\* as at genesis and the Executor holds a block with that transfer.
C7_Witness ==
    /\ api_pc = "submit"
    /\ Decode(api_transaction[1].payload) = ExecuteTestTransaction
    /\ state = FromInitialBalances
    /\ pc = "state_write"
    /\ block = <<ExecuteTestTransaction>>

\* C8: the balances of the Ledger add up to the balances seeded at genesis,
\* whatever transfers the blocks applied held.
C8_TotalBalanceIsGenesisTotal ==
    TotalBalance(state) = TotalBalance(FromInitialBalances)

\* A block is applied whose first transfer, from alice to herself, was
\* accepted and whose second transfer was rejected.
C8_Witness ==
    /\ pc = "commit"
    /\ Len(block) = 2
    /\ block[1] = SubmitTestTransaction
    /\ Verdict(committed, block[1]) = "Ok"
    /\ Verdict(Apply(committed, block[1]), block[2]) = "InsufficientFunds"
    /\ state = Apply(committed, block[1])

\* The step of execute_block that handles the transaction at next_tx.
ExecuteStep == pc = "execute_block" /\ next_tx' = next_tx + 1

\* The transaction at position k of the block is correctly signed by the
\* same account, with the same sequence number, as the one at next_tx.
SameSenderAndSequence(k) ==
    /\ block[k].sig_ok
    /\ block[k].signer = block[next_tx].signer
    /\ block[k].nonce = block[next_tx].nonce

\* C9, as stated: of two transfers with the same sender and sequence number
\* the first is applied and the second is rejected as ReplayedOrStaleSequence,
\* without any change of the Ledger. It is stated for the second transfers
\* whose sequence number is not beyond the next one expected of the sender:
\* how apply treats a gap is left to the implementation.
C9_SecondStep ==
    (/\ ExecuteStep
     /\ block[next_tx].sig_ok
     /\ block[next_tx].nonce <= state.nonces[block[next_tx].signer] + 1
     /\ \/ <<block[next_tx].signer, block[next_tx].nonce>> \in applied
        \/ \E k \in 1..(next_tx - 1) : SameSenderAndSequence(k))
        => /\ <<block[next_tx].signer, block[next_tx].nonce>> \in applied
           /\ Verdict(state, block[next_tx]) = "ReplayedOrStaleSequence"
           /\ state' = state

C9_ExactlyOneOfTwoApplied == [][C9_SecondStep]_vars

\* C9, amended: once a transfer is applied, a later transfer with the same
\* sender and sequence number, in the same block or in a later one, is
\* rejected as ReplayedOrStaleSequence and leaves the Ledger as it was after
\* the first; so at most one of the two is applied.
C9_ReplayStep ==
    (/\ ExecuteStep
     /\ block[next_tx].sig_ok
     /\ <<block[next_tx].signer, block[next_tx].nonce>> \in applied)
        => /\ Verdict(state, block[next_tx]) = "ReplayedOrStaleSequence"
           /\ state' = state
           /\ applied' = applied

C9_ReplayOfAppliedIsRejected == [][C9_ReplayStep]_vars

\* A block holds the same transfer twice: the first was applied, the second
\* was not.
C9_Witness ==
    /\ pc = "execute_block"
    /\ Len(block) = 2
    /\ next_tx = 3
    /\ block[1] = block[2]
    /\ Verdict(committed, block[1]) = "Ok"
    /\ state = Apply(committed, block[1])
    /\ state # committed

\* C10: a transfer that apply rejects leaves every balance and every sequence
\* number as it was.
C10_RejectedStep ==
    (ExecuteStep /\ Verdict(state, block[next_tx]) # "Ok")
        => state' = state

C10_RejectionLeavesLedgerUnchanged == [][C10_RejectedStep]_vars

\* In the second block, a forged transfer and a transfer beyond the sender's
\* balance were rejected, and the Ledger is as it was before the block.
C10_Witness ==
    /\ pc = "execute_block"
    /\ i = 1
    /\ Len(block) = 2
    /\ next_tx = 3
    /\ Verdict(committed, block[1]) = "BadSignature"
    /\ Verdict(committed, block[2]) = "InsufficientFunds"
    /\ committed # FromInitialBalances
    /\ state = committed

\* ------------------------------------------------------------------------
\* The Ledger alone, fed transfers between any of its accounts
\* ------------------------------------------------------------------------
\* Every correctly signed transfer between two accounts of the Ledger.
Transfers ==
    { SignedTransaction(a, d, n, s, TRUE) :
        a \in 1..MaxAmount, d \in Addresses, n \in 1..MaxNonce, s \in Addresses }

\* No account is the sender or the destination of both transfers.
DisjointAccounts(t1, t2) ==
    {t1.signer, t1.destination} \cap {t2.signer, t2.destination} = {}

\* apply(transfer) on the Ledger, for a transfer it accepts.
LedgerApply ==
    /\ block = NoBlock
    /\ \E t \in Transfers :
          /\ Verdict(state, t) = "Ok"
          /\ state' = Apply(state, t)
    /\ committed' = state'
    /\ UNCHANGED <<executor_vars, writer, readers, l1_vars, api_vars,
                   executed_heights, accepted_heights, submit_height, applied,
                   fault_vars>>

\* execute_block on two transfers over disjoint accounts; committed keeps the
\* Ledger they were applied to.
LedgerApplyPair ==
    /\ block = NoBlock
    /\ \E t1, t2 \in Transfers :
          /\ DisjointAccounts(t1, t2)
          /\ block' = <<t1, t2>>
          /\ state' = ExecuteBlock(state, <<t1, t2>>)
    /\ UNCHANGED <<pc, block_height, current_block_height, i, block_commitment,
                   next_tx, proof, state_comm, exit_cause>>
    /\ UNCHANGED <<writer, readers, l1_vars, api_vars, history_vars, fault_vars>>

LedgerNext ==
    \/ LedgerApply
    \/ LedgerApplyPair

LedgerSpec == Init /\ [][LedgerNext]_vars

\* C16: the commitment after two valid transfers over disjoint accounts does
\* not depend on the order in which they were applied: the Ledger that
\* applied them in one order has the commitment of the Ledger that applies
\* them, from the same Ledger, in the other order.
C16_CommitIgnoresOrderOfDisjointTransfers ==
    (/\ Len(block) = 2
     /\ Verdict(committed, block[1]) = "Ok"
     /\ Verdict(committed, block[2]) = "Ok")
        => Commit(state) = Commit(ExecuteBlock(committed, <<block[2], block[1]>>))

\* Two valid transfers between four different accounts were applied.
C16_Witness ==
    /\ Len(block) = 2
    /\ Verdict(committed, block[1]) = "Ok"
    /\ Verdict(committed, block[2]) = "Ok"
    /\ Cardinality({block[1].signer, block[1].destination,
                    block[2].signer, block[2].destination}) = 4
    /\ Commit(state) # Commit(committed)

\* ------------------------------------------------------------------------
\* run_executor and serve when every read succeeds, every fetched block is
\* the anchored one and the L1 connection is sound
\* ------------------------------------------------------------------------
\* The blocks the sequencer builds from what clients post to the submit route.
SubmittedBlocks == SeqsUpTo(SubmittedTransactions, MaxBlockLen)

\* commitments(i).call() returns the hash of such a block.
ReadSubmittedCommitment ==
    /\ ReadCommitment
    /\ block_commitment' \in { BlockCommit(b) : b \in SubmittedBlocks }

\* hotshot.get("block/{i}") answers with the block anchored for the height.
GetAnchoredBlock ==
    /\ GetBlock
    /\ BlockCommit(block') = block_commitment

\* What run_executor does on its own once it can: every step but the
\* acquisition of the write guard and the outcome of a submission.
ExecutorProgress ==
    \/ ConnectHotShot
    \/ ConnectL1
    \/ ConnectWs
    \/ SubscribeLogs
    \/ ReadBlockHeight
    \/ ForBody
    \/ ForDone
    \/ ReadSubmittedCommitment
    \/ GetAnchoredBlock
    \/ CheckCommitment
    \/ ExecuteTransaction
    \/ ExecuteBlockDone
    \/ CommitState
    \/ Sleep
    \/ StreamNext

\* A handler that was dispatched runs to its end.
ApiProgress ==
    \/ BalanceHandler
    \/ BalanceHandlerErr
    \/ BalanceRespond
    \/ SubmitTransaction

\* The two steps of run_executor that can be refused: the write guard and the
\* acceptance of a submission.
ExecutorGranted ==
    \/ StateWrite
    \/ NewBlock

LiveNext ==
    \/ ConnectHotShotErr
    \/ ExecutorProgress
    \/ ExecutorGranted
    \/ NewBlockErr
    \/ HotShotCommitmentTask
    \/ ApiNext

\* The executor task is scheduled whenever it can take a step; the RwLock is
\* write-preferring, so a write() that is requested again and again is
\* granted; a submission that is attempted again and again is accepted in the
\* end.
LiveSpec ==
    /\ Init
    /\ [][LiveNext]_vars
    /\ WF_vars(ExecutorProgress)
    /\ WF_vars(ApiProgress)
    /\ SF_vars(ExecutorGranted)

\* C12: every height below the anchored height is in the end executed on the
\* Ledger and its submission accepted, whenever the height was anchored:
\* before the subscription, while the Executor was busy with another height
\* or while it waited.
C12_EveryAnchoredHeightIsAccepted ==
    \A h \in 0..(MaxHeight - 1) :
        (l1_block_height > h)
            ~> (Len(executed_heights) > h /\ Len(accepted_heights) > h)

\* Height 1 was anchored, and its log delivered, while the Executor was
\* between two attempts to submit for height 0.
C12_Witness ==
    /\ pc = "sleep"
    /\ i = 0
    /\ current_block_height = 1
    /\ l1_block_height = 2
    /\ stream > 0

\* C11: a failed submission for height h neither ends run_executor nor moves
\* it to another height. From the submission or the sleep between two
\* attempts the Executor goes on to the other of the two, for the same height
\* and with no block applied, or the submission is accepted; no attempt is
\* the last one, the next is always possible.
C11_Submitting == pc \in {"submit", "sleep"}

C11_RetryStep ==
    C11_Submitting
        => \/ /\ pc' \in {"submit", "sleep"}
              /\ exit_cause' = "none"
              /\ submit_height' \in {submit_height, i}
              /\ UNCHANGED <<i, state, executed_heights, accepted_heights>>
           \/ /\ pc = "submit"
              /\ pc' = "for"
              /\ accepted_heights' = Append(accepted_heights, i)
              /\ UNCHANGED <<state, executed_heights>>

C11_NextAttemptPossible ==
    /\ pc = "sleep" => ENABLED Sleep
    /\ pc = "submit" => ENABLED NewBlockErr /\ ENABLED NewBlock

C11_SubmissionErrorOnlyRetries ==
    [][C11_RetryStep /\ C11_NextAttemptPossible]_vars

\* The submission for height 1 failed, the sleep is over and the Executor is
\* about to submit for height 1 again.
C11_Witness ==
    /\ pc = "submit"
    /\ submit_height = 1
    /\ i = 1
    /\ accepted_heights = <<0>>

\* C13 as stated: a failed connection at start-up, to the query service or
\* to the L1, is followed by nothing but the return of run_executor.
C13_AnyConnectFailureIsFatal ==
    [][pc = "connect_hotshot_failed" => pc' \in {"connect_hotshot_failed", "exited"}]_vars

C13_AnchorCauses == {"connect_l1", "connect_ws", "subscribe"}

\* C13: a failure of connect_rpc, of the websocket connection or of
\* subscribe_logs makes run_executor return at once: whenever one is the cause
\* recorded, run_executor has returned, the Ledger is the genesis Ledger, no
\* block was executed and no submission made, and nothing of run_executor or
\* of the Ledger changes afterwards. A failure to reach the query service is
\* not among them.
C13_AnchorFailureState ==
    exit_cause \in C13_AnchorCauses
        => /\ pc = "exited"
           /\ state = FromInitialBalances
           /\ executed_heights = <<>>
           /\ accepted_heights = <<>>
           /\ submit_height = NoValue
           /\ contract_state_comm = 0

C13_AnchorFailureStep ==
    /\ pc \in {"connect_l1", "connect_ws", "subscribe"}
          => /\ pc' \in {pc, "connect_ws", "subscribe", "read_height", "exited"}
             /\ pc' = "exited" => exit_cause' = pc
             /\ UNCHANGED <<state, history_vars, contract_state_comm>>
    /\ exit_cause \in C13_AnchorCauses => UNCHANGED <<executor_vars, state, history_vars>>

C13_AnchorConnectFailureIsFatal ==
    [](C13_AnchorFailureState) /\ [][C13_AnchorFailureStep]_vars

\* The websocket connection failed while two blocks were already anchored.
C13_Witness ==
    /\ pc = "exited"
    /\ exit_cause = "connect_ws"
    /\ l1_block_height = 2

\* C14: a failed read of the anchored height, of the hash anchored for a
\* height or of the block of a height makes run_executor return, with no
\* second attempt: the read is followed by the step after it or by the return
\* whose cause is that read. Once it returned for such a cause, the Ledger is
\* the Ledger of the last block boundary, no execute_block ran for the height
\* that was read, and neither the Ledger nor the record of executed and
\* submitted heights changes again.
C14_ReadCauses == {"block_height", "commitment", "block"}

C14_ReadFailureState ==
    exit_cause \in C14_ReadCauses
        => /\ pc = "exited"
           /\ writer # "executor"
           /\ state = committed
           /\ Len(executed_heights) = Len(accepted_heights)
           /\ submit_height < i

C14_ReadFailureStep ==
    /\ pc = "read_height"
          => /\ pc' \in {"read_height", "for", "exited"}
             /\ pc' = "exited" => exit_cause' = "block_height"
    /\ pc = "read_commitment"
          => /\ pc' \in {"read_commitment", "get_block", "exited"}
             /\ pc' = "exited" => exit_cause' = "commitment"
    /\ pc = "get_block"
          => /\ pc' \in {"get_block", "check_commitment", "exited"}
             /\ pc' = "exited" => exit_cause' = "block"
    /\ pc \in {"read_height", "read_commitment", "get_block"}
          => UNCHANGED <<state, history_vars, contract_state_comm>>
    /\ exit_cause \in C14_ReadCauses
          => UNCHANGED <<executor_vars, state, history_vars, contract_state_comm>>

C14_ReadFailureIsFatal ==
    [](C14_ReadFailureState) /\ [][C14_ReadFailureStep]_vars

\* Block 0 changed the Ledger and was accepted; the fetch of block 1 failed.
C14_Witness ==
    /\ pc = "exited"
    /\ exit_cause = "block"
    /\ i = 1
    /\ accepted_heights = <<0>>
    /\ state # FromInitialBalances

\* The block b without its j-th transaction.
C15_RemoveAt(b, j) == SubSeq(b, 1, j - 1) \o SubSeq(b, j + 1, Len(b))

\* The j-th transaction of b is rejected when b is executed on the Ledger s.
C15_RejectedAt(s, b, j) == Verdict(ExecutePrefix(s, b, j - 1), b[j]) # "Ok"

\* C15: a rejected transaction does not end the block. Execution goes from
\* transaction to transaction and then to the commitment and the submission,
\* never to the return of run_executor; when the block is executed the Ledger
\* is the one the block without any one of its rejected transactions would
\* have produced, and the commitment submitted for the height is that of this
\* Ledger.
C15_BlockExecuted ==
    pc = "commit"
        => \A j \in 1..Len(block) :
              C15_RejectedAt(committed, block, j)
                  => state = ExecuteBlock(committed, C15_RemoveAt(block, j))

C15_Submitted ==
    pc \in {"submit", "sleep"}
        => /\ executed_heights[Len(executed_heights)] = i
           /\ state_comm = CommitmentToU256(Commit(state))

C15_ExecuteStep ==
    /\ pc = "execute_block" => pc' \in {"execute_block", "commit"}
    /\ pc = "commit" => pc' \in {"commit", "submit"}

C15_RejectedTransactionIsSkipped ==
    [](C15_BlockExecuted /\ C15_Submitted) /\ [][C15_ExecuteStep]_vars

\* The first transaction of a block of two was rejected and the second one
\* changed the Ledger.
C15_Witness ==
    /\ pc = "commit"
    /\ Len(block) = 2
    /\ C15_RejectedAt(committed, block, 1)
    /\ state # committed

\* C18: from the end of execute_block for a height to the acceptance of its
\* submission the Ledger is not changed and the block is not executed again;
\* every attempt carries the commitment and the proof computed once after the
\* block, and this commitment is the commitment of the Ledger all along.
C18_AwaitingAcceptance ==
    pc \in {"submit", "sleep"}
        => /\ state_comm = CommitmentToU256(Commit(state))
           /\ proof[2] = state_comm
           /\ writer # "executor"

C18_RetryStep ==
    /\ pc = "commit" => UNCHANGED <<state, proof, executed_heights>>
    /\ pc \in {"submit", "sleep"}
          => /\ pc' \in {"submit", "sleep", "for"}
             /\ UNCHANGED <<state, executed_heights>>
             /\ pc' # "for" => UNCHANGED <<state_comm, proof, i>>

C18_RetriesSubmitSamePair ==
    [](C18_AwaitingAcceptance) /\ [][C18_RetryStep]_vars

\* Block 0 changed the Ledger, its submission failed and is about to be made
\* again.
C18_Witness ==
    /\ pc = "submit"
    /\ submit_height = 0
    /\ i = 0
    /\ proof[1] # proof[2]

\* C20 as stated: outside the submission and its retries, block_height, the
\* height run_executor keeps from one pass of the loop to the next, is the
\* number of heights whose submission was accepted.
C20_BlockHeightCountsAccepted ==
    pc \notin {"submit", "sleep"} => block_height = Len(accepted_heights)

\* C20: when the submission for height h is accepted, the for loop goes on
\* with h + 1: the height i of the loop is the number of accepted heights
\* from the first read of the anchored height on. block_height is assigned
\* only when the range is exhausted; it is the number of accepted heights
\* while run_executor waits for a log or is about to read the anchored
\* height, and at most that number otherwise.
C20_AcceptedStep ==
    (pc = "submit" /\ accepted_heights' # accepted_heights)
        => /\ accepted_heights' = Append(accepted_heights, i)
           /\ i' = i + 1
           /\ pc' = "for"
           /\ block_height' = block_height

C20_LoopHeight ==
    /\ i = Len(accepted_heights)
    /\ pc \in {"stream_next", "read_height"} => block_height = Len(accepted_heights)
    /\ block_height <= Len(accepted_heights)

C20_LoopHeightCountsAccepted ==
    [](C20_LoopHeight) /\ [][C20_AcceptedStep]_vars

\* Two heights were accepted in one pass of the loop, which is over.
C20_Witness ==
    /\ pc = "stream_next"
    /\ block_height = 2
    /\ accepted_heights = <<0, 1>>

\* C17 as stated: whatever the reads of the anchored height return, the
\* heights execute_block ran on are 0, 1, 2, ... in this order, none twice.
C17_ExecutedHeightsContiguous ==
    executed_heights = FirstHeights(Len(executed_heights))

\* C19 as stated: run_executor reaches the read of the anchored height from
\* the subscription, once, and otherwise only from stream.next() by consuming
\* one delivered log.
C19_ReadStep ==
    (pc' = "read_height" /\ pc # "read_height")
        => \/ pc = "subscribe"
           \/ /\ pc = "stream_next"
              /\ stream > 0
              /\ stream' = stream - 1

C19_ReadsNeedNotification == [][C19_ReadStep]_vars

====
